---- MODULE Spec2Model ----
(***************************************************************************)
(* Custom LLM server (node/custom_llm/custom_llm.js): the three POST       *)
(* endpoints /chat/completions, /rag/chat/completions and                  *)
(* /audio/chat/completions as a state machine.  One step of the model is   *)
(* one turn of the Node event loop of one request's async handler: the     *)
(* synchronous code between two awaits runs atomically.  The upstream      *)
(* completion client, the retrieval collaborator, the file system and the  *)
(* timers are the environment: each awaited promise resolves or rejects.   *)
(***************************************************************************)
EXTENDS Integers, Sequences, FiniteSets, TLC

VARIABLES
    req,        \* req[r]: endpoint and parsed JSON body of request r
    pc,         \* pc[r]: where request r's handler is suspended
    res,        \* res[r]: the Express response object of request r
    upstream,   \* upstream[r]: the calls made to openai.chat.completions
    retrieval,  \* retrieval[r]: the calls made to performRagRetrieval
    audio,      \* audio[r]: locals of the audio handler
    caught,     \* caught[r]: the error bound by the handler's outer catch
    trace,      \* trace[r]: the calls request r has made, in program order
    loader,     \* one call of readPCMFile, its loop taken turn by turn
    go          \* one request to /chat/completions of the Go server

vars ==
    <<req, pc, res, upstream, retrieval, audio, caught, trace, loader, go>>

\* the state of the Node server's handlers
handlerVars == <<req, pc, res, upstream, retrieval, audio, caught, trace>>

----------------------------------------------------------------------------
(* Bounds of the model *)

\* most chunks an upstream stream yields before it ends or fails
MaxChunks == 3
\* the PCM asset holds at most MaxPcmBlocks full chunks, plus one byte
MaxPcmBlocks == 2
\* a call of readPCMFile on its own reads at most MaxPcmLen bytes
MaxPcmLen == 4
\* the turns of the loop of readPCMFile that are followed
MaxTurns == 6

----------------------------------------------------------------------------
(* JavaScript values of a parsed JSON body.  A value is a record with a    *)
(* type tag t and, for an array, its elements a.                           *)

JUndefined == [t |-> "undefined", a |-> <<>>]
JNull      == [t |-> "null", a |-> <<>>]
JTrue      == [t |-> "true", a |-> <<>>]
JFalse     == [t |-> "false", a |-> <<>>]
JZero      == [t |-> "zero", a |-> <<>>]
JOne       == [t |-> "one", a |-> <<>>]
JEmptyStr  == [t |-> "emptystr", a |-> <<>>]
JObject    == [t |-> "object", a |-> <<>>]
\* a string, as the parts it is put together from
JStr(s)    == [t |-> "string", a |-> s]
JAuto      == JStr(<<"auto">>)
JArray(s)  == [t |-> "array", a |-> s]

\* ToBoolean: every value is truthy but undefined, null, false, 0 and ""
Truthy(v) == v.t \notin {"undefined", "null", "false", "zero", "emptystr"}

\* mutant: the destructuring default is missing
WithDefault_None(v, d) == v

\* a destructuring default applies to undefined only
WithDefault(v, d) == IF v.t = "undefined" THEN d ELSE v

\* spread ...v needs an iterable
Iterable(v) == v.t \in {"array"}

UserMsg   == [role |-> "user", content |-> JStr(<<"hi">>)]
SystemMsg == [role |-> "system", content |-> JStr(<<"be brief">>)]

MessagesValues ==
    { JUndefined, JNull, JEmptyStr, JOne,
      JArray(<<>>), JArray(<<UserMsg>>), JArray(<<SystemMsg, UserMsg>>) }

StreamValues == { JUndefined, JTrue, JFalse, JNull, JZero, JOne }

Endpoints == { "chat", "rag", "audio" }

Tool == [type |-> "function", name |-> "get_weather"]

ToolsValues == { JUndefined, JArray(<<>>), JArray(<<Tool>>) }

ToolChoiceValues == { JUndefined, JAuto }

\* a message whose content is a list of parts
ImageMsg == [role |-> "user", content |-> JArray(<<[type |-> "image_url"]>>)]

\* every messages and stream value without tools, and every tools and
\* tool_choice value with a body that is accepted
Bodies ==
    [messages : MessagesValues \cup {JArray(<<ImageMsg>>)},
     stream : StreamValues,
     tools : {JUndefined}, tool_choice : {JUndefined}]
    \cup
    [messages : {JArray(<<UserMsg>>)}, stream : {JTrue},
     tools : ToolsValues, tool_choice : ToolChoiceValues]

----------------------------------------------------------------------------
(* The Express response object.  setHeader only records a header; the      *)
(* headers are sent (headersSent) by the first write, json or end.         *)
(* written holds the chunks passed to res.write, in order; destroyed is    *)
(* true once the client has closed the connection, and a write to a        *)
(* destroyed response neither throws nor reaches the client.               *)

NewResponse ==
    [ statusCode  |-> 200,
      headers     |-> [ContentType |-> "unset", CacheControl |-> "unset",
                       Connection |-> "unset"],
      headersSent |-> FALSE,
      body        |-> [t |-> "none"],
      written     |-> <<>>,
      ended       |-> 0,
      destroyed   |-> FALSE ]

ResStatus(rs, code) == [rs EXCEPT !.statusCode = code]

ResSetHeader(rs, name, value) == [rs EXCEPT !.headers[name] = value]

\* res.write(chunk): the first write flushes the headers
ResWrite(rs, chunk) ==
    [rs EXCEPT !.headersSent = TRUE, !.written = Append(@, chunk)]

ResEnd(rs) == [rs EXCEPT !.headersSent = TRUE, !.ended = @ + 1]

\* res.json(obj): Content-Type becomes application/json unless one is set
\* already; the body is sent and the response ended
ResJson(rs, obj) ==
    ResEnd([rs EXCEPT
              !.headers.ContentType =
                  IF @ = "unset" THEN "application/json" ELSE @,
              !.body = [t |-> "json", v |-> obj]])

\* the three headers of the "Set SSE headers" block
SetSseHeaders(rs) ==
    ResSetHeader(
        ResSetHeader(
            ResSetHeader(rs, "ContentType", "text/event-stream"),
            "CacheControl", "no-cache"),
        "Connection", "keep-alive")

\* JSON.stringify(v), as the payload of one event
JsonStringify(v) == [t |-> "json", v |-> v]

\* `data: ${payload}\n\n`
SseData(payload) == [data |-> payload]

DoneEvent == SseData([t |-> "literal", text |-> "[DONE]"])

ChunkEvent(chunk) == SseData(JsonStringify(chunk))

ErrorEvent(error) == SseData(JsonStringify([error |-> error.message]))

----------------------------------------------------------------------------
(* Validation, common to the three handlers *)

MissingMessages == "Missing messages in request body"
RequireStreaming == "chat completions require streaming"

\* mutant: the check of messages is missing
ValidationDetail_NoMessagesCheck(body) ==
    IF ~Truthy(WithDefault(body.stream, JTrue)) THEN RequireStreaming
    ELSE "none"

\* mutant: the check of stream is missing
ValidationDetail_NoStreamCheck(body) ==
    IF ~Truthy(body.messages) THEN MissingMessages ELSE "none"

\* the detail of the 400 response, or "none" when the body is accepted
ValidationDetail(body) ==
    LET messages == body.messages
        stream   == WithDefault(body.stream, JTrue)
    IN  IF ~Truthy(messages) THEN MissingMessages
        ELSE IF ~Truthy(stream) THEN RequireStreaming
        ELSE "none"

\* return res.status(400).json({ detail })
Reject(rs, detail) == ResJson(ResStatus(rs, 400), [detail |-> <<detail>>])

\* mutant: the catch block always answers with a JSON body
Catch_AlwaysJson(rs, error) ==
    ResJson(ResStatus(rs, 500),
            [detail |-> <<error.message, "\n", error.stack>>])

\* mutant: the catch block ends the stream without writing [DONE]
Catch_NoSentinel(rs, error) ==
    IF ~rs.headersSent
    THEN ResJson(ResStatus(rs, 500),
                 [detail |-> <<error.message, "\n", error.stack>>])
    ELSE ResEnd(ResWrite(rs, ErrorEvent(error)))

\* mutant: after the error event the catch block also sends the JSON detail
Catch_DetailAfterEvents(rs, error) ==
    IF ~rs.headersSent
    THEN ResJson(ResStatus(rs, 500),
                 [detail |-> <<error.message, "\n", error.stack>>])
    ELSE ResJson(ResWrite(ResWrite(rs, ErrorEvent(error)), DoneEvent),
                 [detail |-> <<error.message, "\n", error.stack>>])

\* the catch block of a handler
Catch(rs, error) ==
    IF ~rs.headersSent
    THEN ResJson(ResStatus(rs, 500),
                 [detail |-> <<error.message, "\n", error.stack>>])
    ELSE ResEnd(ResWrite(ResWrite(rs, ErrorEvent(error)), DoneEvent))

\* mutant: [DONE] is written and res.end() is not called
Finish_NoEnd(rs) == ResWrite(rs, DoneEvent)

\* the end of the stream: res.write('data: [DONE]\n\n'); res.end()
Finish(rs) == ResEnd(ResWrite(rs, DoneEvent))

----------------------------------------------------------------------------
(* The upstream completion client *)

Chunks == { [id |-> "c1"], [id |-> "c2"] }

UpstreamErrors ==
    { [message |-> "401 Incorrect API key provided", stack |-> "stack"],
      [message |-> "Connection error.", stack |-> "stack"] }

\* state: "none", then "opening" (create awaited), then "open" or
\* "openFailed", then "ended" or "failed"
NewUpstream ==
    [calls |-> 0, sent |-> <<>>, state |-> "none", received |-> <<>>,
     pulls |-> 0]

\* a && b
And(a, b) == IF Truthy(a) THEN b ELSE a

\* c ? v : undefined
OrUndefined(c, v) == IF Truthy(c) THEN v ELSE JUndefined

\* openai.chat.completions.create({ model, messages, tools: tools ? tools :
\* undefined, tool_choice: tools && tool_choice ? tool_choice : undefined,
\* response_format, stream: true })
CreateCompletion(up, body, messages) ==
    [up EXCEPT
       !.calls = @ + 1, !.state = "opening",
       !.sent = Append(@,
           [messages    |-> messages,
            tools       |-> OrUndefined(body.tools, body.tools),
            tool_choice |-> OrUndefined(And(body.tools, body.tool_choice),
                                        body.tool_choice),
            stream      |-> TRUE])]

----------------------------------------------------------------------------
(* The retrieval collaborator and the message adjustment *)

RetrievedContext ==
    "This is relevant content retrieved from the knowledge base."

RetrievalErrors == { [message |-> "retrieval failed", stack |-> "stack"] }

NotIterable == [message |-> "messages is not iterable", stack |-> "stack"]

\* mutant: the system messages of the request are replaced by the new one
refactMessages_Replaces(context, messages) ==
    <<[role |-> "system",
       content |-> JStr(<<"You have access to the following knowledge: ",
                          context, ". Answer questions using this data.">>)]>>
    \o SelectSeq(messages.a, LAMBDA m : m.role # "system")

\* refactMessages(context, messages): [ systemMessage, ...messages ]
refactMessages(context, messages) ==
    <<[role |-> "system",
       content |-> JStr(<<"You have access to the following knowledge: ",
                          context, ". Answer questions using this data.">>)]>>
    \o messages.a

\* const waitingMessages = [ ... ]
waitingMessages ==
    << "Just a moment, I'm thinking...",
       "Let me think about that for a second...",
       "Good question, let me find out..." >>

WaitingMessage(i) ==
    [id |-> "waiting_msg",
     choices |-> <<[index |-> 0,
                    delta |-> [role |-> "assistant",
                               content |-> waitingMessages[i]],
                    finish_reason |-> "null"]>>]

WaitingEvents == { ChunkEvent(WaitingMessage(i)) : i \in 1..Len(waitingMessages) }

----------------------------------------------------------------------------
(* The audio assets: file.txt and file.pcm *)

\* const sampleRate = 16000
SampleRate == 16000
\* const durationMs = 40
DurationMs == 40
\* for (let i = 0; i < 5; i++)
SimulatedChunks == 5
\* Array(40)
FillerLength == 40

\* Math.floor(sampleRate * 2 * (durationMs / 1000))
ChunkSizeOf(sampleRate, durationMs) == (sampleRate * 2 * durationMs) \div 1000

Min(a, b) == IF a < b THEN a ELSE b

\* content.slice(from, to), offsets counted from 0, to excluded
Slice(content, from, to) == SubSeq(content, from + 1, Min(to, Len(content)))

\* for (let i = 0; i < content.length; i += chunkSize) chunks.push(...)
RECURSIVE PcmLoop(_, _, _, _)
PcmLoop(content, chunkSize, i, chunks) ==
    IF i < Len(content)
    THEN PcmLoop(content, chunkSize, i + chunkSize,
                 Append(chunks, Slice(content, i, i + chunkSize)))
    ELSE chunks

\* mutant: a last chunk shorter than chunkSize is left out
readPCMFile_DropsPartial(content, sampleRate, durationMs) ==
    LET chunkSize == ChunkSizeOf(sampleRate, durationMs)
    IN  [j \in 1..(Len(content) \div chunkSize) |->
            SubSeq(content, (j - 1) * chunkSize + 1, j * chunkSize)]

\* readPCMFile, once fs.readFile has resolved with content
readPCMFile(content, sampleRate, durationMs) ==
    PcmLoop(content, ChunkSizeOf(sampleRate, durationMs), 0, <<>>)

\* chunk.toString('base64'): the characters as their 6-bit values, 64 for '='
Base64(bytes) ==
    LET n == Len(bytes)
        At(k) == IF k <= n THEN bytes[k] ELSE 0
        Char(k) ==
            LET g  == (k - 1) \div 4
                b0 == At(3 * g + 1)
                b1 == At(3 * g + 2)
                b2 == At(3 * g + 3)
                p  == (k - 1) % 4
            IN  CASE p = 0 -> b0 \div 4
                  [] p = 1 -> (b0 % 4) * 16 + b1 \div 16
                  [] p = 2 -> IF 3 * g + 2 <= n
                              THEN (b1 % 16) * 4 + b2 \div 64 ELSE 64
                  [] p = 3 -> IF 3 * g + 3 <= n THEN b2 % 64 ELSE 64
    IN  [k \in 1..(4 * ((n + 2) \div 3)) |-> Char(k)]

SimulatedTranscript ==
    "This is a simulated audio response because actual audio files weren't found."

TextFiles == { "hello, this is the transcript" }

PcmBytes(n) == [k \in 1..n |-> (k * 7) % 256]

PcmLengths ==
    {0, 1} \cup { b * ChunkSizeOf(SampleRate, DurationMs) + d :
                    b \in 1..MaxPcmBlocks, d \in {0, 1} }

PcmFiles == { PcmBytes(n) : n \in PcmLengths }

FileErrors ==
    { [message |-> "ENOENT: no such file or directory", stack |-> "stack"] }

\* the values Math.floor(Math.random() * 256) fills a buffer with
FillerBuffers ==
    { [k \in 1..FillerLength |-> 0], [k \in 1..FillerLength |-> (k * 37) % 256] }

\* pcm: <<content>> once fs.readFile has resolved with content of file.pcm;
\* failure: <<error>> once the inner catch block has bound error
NewAudio ==
    [text |-> "", pcm |-> <<>>, failure |-> <<>>, chunks |-> <<>>, i |-> 0,
     audioId |-> 0, uuids |-> 0]

\* textMessage: { id, choices: [{ delta: { audio: { id, transcript } } }] }
TranscriptEvent(id, audioId, transcript) ==
    ChunkEvent([id |-> id,
                choices |-> <<[index |-> 0,
                               delta |-> [audio |-> [id |-> audioId,
                                                     transcript |-> transcript]],
                               finish_reason |-> "null"]>>])

\* audioMessage: { id, choices: [{ delta: { audio: { id, data } } }] }
AudioEvent(id, audioId, bytes) ==
    ChunkEvent([id |-> id,
                choices |-> <<[index |-> 0,
                               delta |-> [audio |-> [id |-> audioId,
                                                     data |-> Base64(bytes)]],
                               finish_reason |-> "null"]>>])

\* mutant: each audio message gets an audio id of its own
AudioTurn_FreshAudioId(a, rs) ==
    IF a.i < Len(a.chunks)
    THEN [audio |-> [a EXCEPT !.i = @ + 1, !.uuids = @ + 2],
          res   |-> ResWrite(rs, AudioEvent(a.uuids + 1, a.uuids + 2,
                                            a.chunks[a.i + 1])),
          pc    |-> "awaitTimer"]
    ELSE [audio |-> a, res |-> Finish(rs), pc |-> "closed"]

\* one turn of the loop over audioChunks, up to its await of the timer, or
\* past the loop to the end of the stream
AudioTurn(a, rs) ==
    IF a.i < Len(a.chunks)
    THEN [audio |-> [a EXCEPT !.i = @ + 1, !.uuids = @ + 1],
          res   |-> ResWrite(rs, AudioEvent(a.uuids + 1, a.audioId,
                                            a.chunks[a.i + 1])),
          pc    |-> "awaitTimer"]
    ELSE [audio |-> a, res |-> Finish(rs), pc |-> "closed"]

\* mutant: the inner catch block ends the stream itself, and the code after
\* the try statement ends it again
SimulatedTurn_EndsStream(a, rs, filler) ==
    IF a.i < SimulatedChunks
    THEN [audio |-> [a EXCEPT !.i = @ + 1, !.uuids = @ + 1],
          res   |-> ResWrite(rs, AudioEvent(a.uuids + 1, a.audioId, filler)),
          pc    |-> "awaitSimTimer"]
    ELSE [audio |-> a,
          res   |-> ResEnd(ResWrite(ResEnd(ResWrite(rs, DoneEvent)), DoneEvent)),
          pc    |-> "closed"]

\* mutant: the loop over the simulated chunks runs once more
SimulatedTurn_OneMore(a, rs, filler) ==
    IF a.i <= SimulatedChunks
    THEN [audio |-> [a EXCEPT !.i = @ + 1, !.uuids = @ + 1],
          res   |-> ResWrite(rs, AudioEvent(a.uuids + 1, a.audioId, filler)),
          pc    |-> "awaitSimTimer"]
    ELSE [audio |-> a, res |-> Finish(rs), pc |-> "closed"]

\* one turn of the loop over the simulated chunks
SimulatedTurn(a, rs, filler) ==
    IF a.i < SimulatedChunks
    THEN [audio |-> [a EXCEPT !.i = @ + 1, !.uuids = @ + 1],
          res   |-> ResWrite(rs, AudioEvent(a.uuids + 1, a.audioId, filler)),
          pc    |-> "awaitSimTimer"]
    ELSE [audio |-> a, res |-> Finish(rs), pc |-> "closed"]

\* the inner catch block: a new audioId, the simulated transcript, and the
\* first turn of the loop over the simulated chunks
SimulatedResponse(a, rs, filler) ==
    SimulatedTurn(
        [a EXCEPT !.i = 0, !.audioId = a.uuids + 1, !.uuids = @ + 2],
        ResWrite(rs, TranscriptEvent(a.uuids + 2, a.uuids + 1,
                                     SimulatedTranscript)),
        filler)

----------------------------------------------------------------------------
(* Initial state: one request per id, not yet handled *)

RequestIds == {1}

\* state: "none", then "pending" (the call awaited), then "resolved" or
\* "rejected"
NewRetrieval == [calls |-> 0, state |-> "none"]

\* the handlers of the requests R have not run yet
NewRequests(R) ==
    /\ pc = [r \in R |-> "start"]
    /\ res = [r \in R |-> NewResponse]
    /\ upstream = [r \in R |-> NewUpstream]
    /\ retrieval = [r \in R |-> NewRetrieval]
    /\ audio = [r \in R |-> NewAudio]
    /\ caught = [r \in R |-> <<>>]
    /\ trace = [r \in R |-> <<>>]

InitOf(R) ==
    /\ req \in [R -> [endpoint : Endpoints, body : Bodies]]
    /\ NewRequests(R)

\* no call of readPCMFile but the one of the audio handler
NoLoader ==
    [pc |-> "idle", sampleRate |-> 0, durationMs |-> 0, read |-> FALSE,
     content |-> <<>>, chunkSize |-> 0, i |-> 0, chunks |-> <<>>,
     error |-> <<>>]

\* no request to the Go server
NoGo ==
    [body |-> [messages |-> JUndefined, stream |-> JUndefined,
               tools |-> JUndefined, tool_choice |-> JUndefined],
     handler |-> "idle", producer |-> "idle",
     responseChan |-> <<>>, closed |-> FALSE, errorChan |-> <<>>,
     stream |-> "none", received |-> <<>>, pending |-> <<>>, err |-> <<>>,
     out |-> [status |-> 200, events |-> <<>>, body |-> [t |-> "none"],
              sent |-> <<>>]]

Init == InitOf(RequestIds) /\ loader = NoLoader /\ go = NoGo

Requests == DOMAIN pc

\* the calls the catch block makes, given res.headersSent
CatchTrace(rs) ==
    IF ~rs.headersSent THEN <<"json">> ELSE <<"write", "write", "end">>

\* an error reaches the outer catch block of request r's handler
Throw(r, error) ==
    /\ caught' = [caught EXCEPT ![r] = <<error>>]
    /\ res' = [res EXCEPT ![r] = Catch(@, error)]
    /\ trace' = [trace EXCEPT ![r] = @ \o CatchTrace(res[r])]
    /\ pc' = [pc EXCEPT ![r] = "closed"]

----------------------------------------------------------------------------
(* POST /chat/completions *)

\* the handler up to its first await: validation, the SSE headers and the
\* call of openai.chat.completions.create
ChatHandler(r) ==
    /\ pc[r] = "start"
    /\ req[r].endpoint = "chat"
    /\ LET detail == ValidationDetail(req[r].body)
       IN  IF detail # "none"
           THEN /\ res' = [res EXCEPT ![r] = Reject(@, detail)]
                /\ trace' = [trace EXCEPT ![r] = @ \o <<"json">>]
                /\ pc' = [pc EXCEPT ![r] = "closed"]
                /\ UNCHANGED upstream
           ELSE /\ res' = [res EXCEPT ![r] = SetSseHeaders(@)]
                /\ upstream' = [upstream EXCEPT
                                  ![r] = CreateCompletion(@, req[r].body,
                                              req[r].body.messages)]
                /\ trace' = [trace EXCEPT ![r] = @ \o <<"create">>]
                /\ pc' = [pc EXCEPT ![r] = "awaitCreate"]
    /\ UNCHANGED <<req, loader, go, retrieval, audio, caught>>

\* create() resolves with the stream; for await asks it for its first chunk
CreateResolves(r) ==
    /\ pc[r] = "awaitCreate"
    /\ upstream' = [upstream EXCEPT ![r].state = "open", ![r].pulls = @ + 1]
    /\ trace' = [trace EXCEPT ![r] = @ \o <<"next">>]
    /\ pc' = [pc EXCEPT ![r] = "awaitNext"]
    /\ UNCHANGED <<req, loader, go, res, retrieval, audio, caught>>

\* mutant: after a first rejection create is called once more
CreateRejects_Retries(r) ==
    /\ pc[r] = "awaitCreate"
    /\ IF upstream[r].calls < 2
       THEN /\ upstream' = [upstream EXCEPT
                              ![r] = CreateCompletion(@, req[r].body,
                                                      @.sent[1].messages)]
            /\ trace' = [trace EXCEPT ![r] = @ \o <<"create">>]
            /\ UNCHANGED <<pc, res, caught>>
       ELSE /\ upstream' = [upstream EXCEPT ![r].state = "openFailed"]
            /\ \E error \in UpstreamErrors : Throw(r, error)
    /\ UNCHANGED <<req, loader, go, retrieval, audio>>

\* create() rejects: the catch block runs
CreateRejects(r) ==
    /\ pc[r] = "awaitCreate"
    /\ upstream' = [upstream EXCEPT ![r].state = "openFailed"]
    /\ \E error \in UpstreamErrors : Throw(r, error)
    /\ UNCHANGED <<req, loader, go, retrieval, audio>>

\* mutant: a chunk equal to the one before it is not written again
StreamChunk_Coalesce(r) ==
    /\ pc[r] = "awaitNext"
    /\ Len(upstream[r].received) < MaxChunks
    /\ \E chunk \in Chunks :
          LET got == upstream[r].received
              repeated == got # <<>> /\ got[Len(got)] = chunk
          IN  /\ upstream' = [upstream EXCEPT ![r].received = Append(@, chunk),
                                              ![r].pulls = @ + 1]
              /\ res' = [res EXCEPT
                           ![r] = IF repeated THEN @
                                  ELSE ResWrite(@, ChunkEvent(chunk))]
              /\ trace' = [trace EXCEPT
                             ![r] = @ \o (IF repeated THEN <<"next">>
                                          ELSE <<"write", "next">>)]
    /\ UNCHANGED <<req, loader, go, pc, retrieval, audio, caught>>

\* mutant: the next chunk is asked for before the one received is written
StreamChunk_Prefetch(r) ==
    /\ pc[r] = "awaitNext"
    /\ Len(upstream[r].received) < MaxChunks
    /\ \E chunk \in Chunks :
          /\ upstream' = [upstream EXCEPT ![r].received = Append(@, chunk),
                                          ![r].pulls = @ + 1]
          /\ res' = [res EXCEPT ![r] = ResWrite(@, ChunkEvent(chunk))]
    /\ trace' = [trace EXCEPT ![r] = @ \o <<"next", "write">>]
    /\ UNCHANGED <<req, loader, go, pc, retrieval, audio, caught>>

\* mutant: the chunk is written to every response that is streaming, as if
\* the handlers shared one response
StreamChunk_Shared(r) ==
    /\ pc[r] = "awaitNext"
    /\ Len(upstream[r].received) < MaxChunks
    /\ \E chunk \in Chunks :
          /\ upstream' = [upstream EXCEPT ![r].received = Append(@, chunk),
                                          ![r].pulls = @ + 1]
          /\ res' = [q \in Requests |->
                       IF q = r \/ pc[q] = "awaitNext"
                       THEN ResWrite(res[q], ChunkEvent(chunk)) ELSE res[q]]
    /\ trace' = [trace EXCEPT ![r] = @ \o <<"write", "next">>]
    /\ UNCHANGED <<req, loader, go, pc, retrieval, audio, caught>>

\* the stream yields a chunk: it is written and the next one asked for
StreamChunk(r) ==
    /\ pc[r] = "awaitNext"
    /\ Len(upstream[r].received) < MaxChunks
    /\ \E chunk \in Chunks :
          /\ upstream' = [upstream EXCEPT ![r].received = Append(@, chunk),
                                          ![r].pulls = @ + 1]
          /\ res' = [res EXCEPT ![r] = ResWrite(@, ChunkEvent(chunk))]
    /\ trace' = [trace EXCEPT ![r] = @ \o <<"write", "next">>]
    /\ UNCHANGED <<req, loader, go, pc, retrieval, audio, caught>>

\* the stream ends: [DONE], end
StreamEnds(r) ==
    /\ pc[r] = "awaitNext"
    /\ upstream' = [upstream EXCEPT ![r].state = "ended"]
    /\ res' = [res EXCEPT ![r] = Finish(@)]
    /\ trace' = [trace EXCEPT ![r] = @ \o <<"write", "end">>]
    /\ pc' = [pc EXCEPT ![r] = "closed"]
    /\ UNCHANGED <<req, loader, go, retrieval, audio, caught>>

\* the stream throws: the catch block runs
StreamFails(r) ==
    /\ pc[r] = "awaitNext"
    /\ upstream' = [upstream EXCEPT ![r].state = "failed"]
    /\ \E error \in UpstreamErrors : Throw(r, error)
    /\ UNCHANGED <<req, loader, go, retrieval, audio>>

----------------------------------------------------------------------------
(* POST /rag/chat/completions *)

\* mutant: performRagRetrieval is called before the waiting message is
\* written
RagHandler_RetrieveFirst(r) ==
    /\ pc[r] = "start"
    /\ req[r].endpoint = "rag"
    /\ LET detail == ValidationDetail(req[r].body)
       IN  IF detail # "none"
           THEN /\ res' = [res EXCEPT ![r] = Reject(@, detail)]
                /\ trace' = [trace EXCEPT ![r] = @ \o <<"json">>]
                /\ pc' = [pc EXCEPT ![r] = "closed"]
                /\ UNCHANGED retrieval
           ELSE /\ retrieval' = [retrieval EXCEPT
                                   ![r] = [calls |-> @.calls + 1,
                                           state |-> "pending"]]
                /\ \E i \in 1..Len(waitingMessages) :
                      res' = [res EXCEPT
                                ![r] = ResWrite(SetSseHeaders(@),
                                                ChunkEvent(WaitingMessage(i)))]
                /\ trace' = [trace EXCEPT ![r] = @ \o <<"retrieve", "write">>]
                /\ pc' = [pc EXCEPT ![r] = "awaitRetrieval"]
    /\ UNCHANGED <<req, loader, go, upstream, audio, caught>>

\* the handler up to its first await: validation, the SSE headers, the
\* waiting message and the call of performRagRetrieval
RagHandler(r) ==
    /\ pc[r] = "start"
    /\ req[r].endpoint = "rag"
    /\ LET detail == ValidationDetail(req[r].body)
       IN  IF detail # "none"
           THEN /\ res' = [res EXCEPT ![r] = Reject(@, detail)]
                /\ trace' = [trace EXCEPT ![r] = @ \o <<"json">>]
                /\ pc' = [pc EXCEPT ![r] = "closed"]
                /\ UNCHANGED retrieval
           ELSE /\ \E i \in 1..Len(waitingMessages) :
                      res' = [res EXCEPT
                                ![r] = ResWrite(SetSseHeaders(@),
                                                ChunkEvent(WaitingMessage(i)))]
                /\ retrieval' = [retrieval EXCEPT
                                   ![r] = [calls |-> @.calls + 1,
                                           state |-> "pending"]]
                /\ trace' = [trace EXCEPT ![r] = @ \o <<"write", "retrieve">>]
                /\ pc' = [pc EXCEPT ![r] = "awaitRetrieval"]
    /\ UNCHANGED <<req, loader, go, upstream, audio, caught>>

\* performRagRetrieval resolves: the messages are adjusted and create called
RetrievalResolves(r) ==
    /\ pc[r] = "awaitRetrieval"
    /\ retrieval' = [retrieval EXCEPT ![r].state = "resolved"]
    /\ LET messages == req[r].body.messages
       IN  IF Iterable(messages)
           THEN /\ upstream' = [upstream EXCEPT
                                  ![r] = CreateCompletion(@, req[r].body,
                                      JArray(refactMessages(RetrievedContext,
                                                            messages)))]
                /\ trace' = [trace EXCEPT ![r] = @ \o <<"create">>]
                /\ pc' = [pc EXCEPT ![r] = "awaitCreate"]
                /\ UNCHANGED <<res, caught>>
           ELSE /\ Throw(r, NotIterable)
                /\ UNCHANGED upstream
    /\ UNCHANGED <<req, loader, go, audio>>

\* mutant: a rejected retrieval is ignored and create called with the
\* messages of the request
RetrievalRejects_Proceeds(r) ==
    /\ pc[r] = "awaitRetrieval"
    /\ retrieval' = [retrieval EXCEPT ![r].state = "rejected"]
    /\ upstream' = [upstream EXCEPT
                      ![r] = CreateCompletion(@, req[r].body,
                                              req[r].body.messages)]
    /\ trace' = [trace EXCEPT ![r] = @ \o <<"create">>]
    /\ pc' = [pc EXCEPT ![r] = "awaitCreate"]
    /\ UNCHANGED <<req, loader, go, res, audio, caught>>

\* the retrieval rejects: the catch block runs
RetrievalRejects(r) ==
    /\ pc[r] = "awaitRetrieval"
    /\ retrieval' = [retrieval EXCEPT ![r].state = "rejected"]
    /\ \E error \in RetrievalErrors : Throw(r, error)
    /\ UNCHANGED <<req, loader, go, upstream, audio>>

----------------------------------------------------------------------------
(* POST /audio/chat/completions *)

\* request r's handler goes on with the locals, response and position of t
AudioStep(r, t, calls) ==
    /\ audio' = [audio EXCEPT ![r] = t.audio]
    /\ res' = [res EXCEPT ![r] = t.res]
    /\ pc' = [pc EXCEPT ![r] = t.pc]
    /\ trace' = [trace EXCEPT
                   ![r] = @ \o calls
                            \o (IF t.pc = "closed" THEN <<"write", "end">>
                                ELSE <<"write">>)]

\* the handler up to its first await: validation, the SSE headers and the
\* call of readTextFile
AudioHandler(r) ==
    /\ pc[r] = "start"
    /\ req[r].endpoint = "audio"
    /\ LET detail == ValidationDetail(req[r].body)
       IN  IF detail # "none"
           THEN /\ res' = [res EXCEPT ![r] = Reject(@, detail)]
                /\ trace' = [trace EXCEPT ![r] = @ \o <<"json">>]
                /\ pc' = [pc EXCEPT ![r] = "closed"]
           ELSE /\ res' = [res EXCEPT ![r] = SetSseHeaders(@)]
                /\ trace' = [trace EXCEPT ![r] = @ \o <<"readText">>]
                /\ pc' = [pc EXCEPT ![r] = "awaitText"]
    /\ UNCHANGED <<req, loader, go, upstream, retrieval, audio, caught>>

\* readTextFile resolves: readPCMFile is called
ReadTextResolves(r) ==
    /\ pc[r] = "awaitText"
    /\ \E content \in TextFiles :
          audio' = [audio EXCEPT ![r].text = content]
    /\ trace' = [trace EXCEPT ![r] = @ \o <<"readPcm">>]
    /\ pc' = [pc EXCEPT ![r] = "awaitPcm"]
    /\ UNCHANGED <<req, loader, go, res, upstream, retrieval, caught>>

\* readTextFile rejects: the inner catch block answers with simulated data
ReadTextRejects(r) ==
    /\ pc[r] = "awaitText"
    /\ \E error \in FileErrors, filler \in FillerBuffers :
          AudioStep(r,
                    SimulatedResponse([audio[r] EXCEPT !.failure = <<error>>],
                                      res[r], filler),
                    <<"write">>)
    /\ UNCHANGED <<req, loader, go, upstream, retrieval, caught>>

\* readPCMFile resolves: the transcript is written, then the first chunk
ReadPcmResolves(r) ==
    /\ pc[r] = "awaitPcm"
    /\ \E content \in PcmFiles :
          LET a == audio[r]
          IN  AudioStep(r,
                AudioTurn(
                  [a EXCEPT
                     !.pcm = <<content>>,
                     !.chunks = readPCMFile(content, SampleRate, DurationMs),
                     !.i = 0, !.audioId = a.uuids + 1, !.uuids = @ + 2],
                  ResWrite(res[r],
                           TranscriptEvent(a.uuids + 2, a.uuids + 1, a.text))),
                <<"write">>)
    /\ UNCHANGED <<req, loader, go, upstream, retrieval, caught>>

\* readPCMFile rejects: the inner catch block answers with simulated data
ReadPcmRejects(r) ==
    /\ pc[r] = "awaitPcm"
    /\ \E error \in FileErrors, filler \in FillerBuffers :
          AudioStep(r,
                    SimulatedResponse([audio[r] EXCEPT !.failure = <<error>>],
                                      res[r], filler),
                    <<"write">>)
    /\ UNCHANGED <<req, loader, go, upstream, retrieval, caught>>

\* the 100 ms timer of the loop over audioChunks fires
AudioTimer(r) ==
    /\ pc[r] = "awaitTimer"
    /\ AudioStep(r, AudioTurn(audio[r], res[r]), <<>>)
    /\ UNCHANGED <<req, loader, go, upstream, retrieval, caught>>

\* the 100 ms timer of the loop over the simulated chunks fires
SimulatedTimer(r) ==
    /\ pc[r] = "awaitSimTimer"
    /\ \E filler \in FillerBuffers :
          AudioStep(r, SimulatedTurn(audio[r], res[r], filler), <<>>)
    /\ UNCHANGED <<req, loader, go, upstream, retrieval, caught>>

----------------------------------------------------------------------------
(* The Go server (the program of README.md): its three handlers, each as   *)
(* the outcomes it can produce for a request body and a behaviour env of   *)
(* the upstream client, the retrieval and the file system.  An outcome is  *)
(* the status, the SSE events and the JSON body the client gets, and the   *)
(* message lists sent upstream.                                            *)

\* c.ShouldBindJSON(&request) fails: messages is not a list (or null), or
\* stream is not a boolean (or null)
GoBindError(body) ==
    \/ body.messages.t \notin {"undefined", "null", "array"}
    \/ body.stream.t \notin {"undefined", "null", "true", "false"}

\* request.Stream: false unless the body holds true
GoStream(body) == body.stream.t = "true"

\* request.Messages: nil unless the body holds a list
GoMessages(body) ==
    IF body.messages.t = "array" THEN body.messages.a ELSE <<>>

\* c.SSEvent("data", payload): event:data, data:payload
GoSSEvent(payload) == [event |-> "data", data |-> payload]

\* json.Marshal(v), as the payload of one event
GoJsonMarshal(v) == [t |-> "json", v |-> v]

GoDoneEvent == GoSSEvent([t |-> "literal", text |-> "[DONE]"])

GoNewOutcome == [status |-> 200, events |-> <<>>, body |-> [t |-> "none"],
                 sent |-> <<>>]

\* sendError: c.JSON(status, gin.H{"detail": err.Error()}); the status is
\* not changed once an event has written the headers
GoSendError(out, status, detail) ==
    [out EXCEPT !.status = IF out.events = <<>> THEN status ELSE @,
                !.body = [t |-> "json", v |-> [detail |-> <<detail>>]]]

\* the loop converting request.Messages: a message whose content is not a
\* string becomes the zero message
GoConvert(messages) ==
    [k \in 1..Len(messages) |->
        IF messages[k].content.t = "string" THEN messages[k]
        ELSE [role |-> "", content |-> JStr(<<>>)]]

\* refactMessages of the Go server: "for now, just return the original
\* messages"
GoRefactMessages(context, messages) == messages

\* readPCMFile of the Go server, once os.ReadFile has returned data
GoReadPCMFile(data, sampleRate, durationMs) ==
    LET chunkSize == (sampleRate * 2 * durationMs) \div 1000
    IN  IF chunkSize = 0
        THEN [err |-> <<"invalid chunk size">>, chunks |-> <<>>]
        ELSE [err |-> <<>>,
              chunks |->
                [j \in 1..((Len(data) + chunkSize - 1) \div chunkSize) |->
                    SubSeq(data, (j - 1) * chunkSize + 1,
                           Min(j * chunkSize, Len(data)))]]

\* the rejections common to the three handlers; <<>> when the body passes
GoValidation(body) ==
    IF GoBindError(body)
    THEN <<GoSendError(GoNewOutcome, 400, "json: cannot unmarshal")>>
    ELSE IF ~GoStream(body)
    THEN <<GoSendError(GoNewOutcome, 400, RequireStreaming)>>
    ELSE <<>>

\* the events of the chunks the handler has taken from responseChan
GoChunkEvents(chunks) ==
    [k \in 1..Len(chunks) |-> GoSSEvent(GoJsonMarshal(chunks[k]))]

\* mutant: the handler returns without [DONE] when responseChan is closed
GoHandleChatCompletion_NoDone(body, env) ==
    IF GoValidation(body) # <<>> THEN {GoValidation(body)[1]}
    ELSE { [GoNewOutcome EXCEPT
              !.sent = <<GoConvert(GoMessages(body))>>,
              !.events = GoChunkEvents(env.received)] }

\* handleChatCompletion: a goroutine sends the chunks to responseChan and an
\* error to errorChan; the handler selects on both, so that when the stream
\* has failed after k chunks it has written any j <= k of them when it takes
\* the error
GoHandleChatCompletion(body, env) ==
    IF GoValidation(body) # <<>> THEN {GoValidation(body)[1]}
    ELSE LET out == [GoNewOutcome EXCEPT
                       !.sent = <<GoConvert(GoMessages(body))>>]
         IN  CASE env.upstream = "openFailed" ->
                    {GoSendError(out, 500, env.error)}
               [] env.upstream = "ended" ->
                    {[out EXCEPT !.events = GoChunkEvents(env.received)
                                            \o <<GoDoneEvent>>]}
               [] env.upstream = "failed" ->
                    { GoSendError(
                        [out EXCEPT !.events =
                            GoChunkEvents(SubSeq(env.received, 1, j))],
                        500, env.error) : j \in 0..Len(env.received) }

\* handleRAGChatCompletion: the waiting message, the retrieval, the
\* messages, the stream read in the handler itself
GoHandleRAGChatCompletion(body, env) ==
    IF GoValidation(body) # <<>> THEN {GoValidation(body)[1]}
    ELSE LET waiting == [GoNewOutcome EXCEPT
                           !.events = <<GoSSEvent(GoJsonMarshal(
                                          WaitingMessage(env.waiting)))>>]
             out == [waiting EXCEPT
                       !.sent = <<GoConvert(GoRefactMessages(
                                     RetrievedContext, GoMessages(body)))>>]
         IN  CASE env.retrieval = "rejected" ->
                    {GoSendError(waiting, 500, env.error)}
               [] env.upstream = "openFailed" ->
                    {GoSendError(out, 500, env.error)}
               [] env.upstream = "ended" ->
                    {[out EXCEPT !.events = @ \o GoChunkEvents(env.received)
                                              \o <<GoDoneEvent>>]}
               [] env.upstream = "failed" ->
                    {GoSendError(
                        [out EXCEPT !.events = @ \o GoChunkEvents(env.received)],
                        500, env.error)}

\* textMessage of the Go handler
GoTranscriptEvent(id, audioId, transcript) ==
    GoSSEvent(GoJsonMarshal(
        [id |-> id,
         choices |-> <<[index |-> 0,
                        delta |-> [audio |-> [id |-> audioId,
                                              transcript |-> transcript]],
                        finish_reason |-> "null"]>>]))

\* audioMessage of the Go handler
GoAudioEvent(id, audioId, chunk) ==
    GoSSEvent(GoJsonMarshal(
        [id |-> id,
         choices |-> <<[index |-> 0,
                        delta |-> [audio |-> [id |-> audioId,
                                              data |-> Base64(chunk)]],
                        finish_reason |-> "null"]>>]))

\* handleAudioChatCompletion: a file that cannot be read is answered with
\* sendError; the chunks are written without a pause; audioID and the ids
\* of the messages are uuid.New() in the order of the calls
GoHandleAudioChatCompletion(body, env) ==
    IF GoValidation(body) # <<>> THEN {GoValidation(body)[1]}
    ELSE IF env.text = <<>> \/ env.pcm = <<>>
    THEN {GoSendError(GoNewOutcome, 500, env.error)}
    ELSE LET loaded == GoReadPCMFile(env.pcm[1], SampleRate, DurationMs)
         IN  IF loaded.err # <<>>
             THEN {GoSendError(GoNewOutcome, 500, loaded.err[1])}
             ELSE {[GoNewOutcome EXCEPT
                      !.events =
                          <<GoTranscriptEvent(2, 1, env.text[1])>>
                          \o [j \in 1..Len(loaded.chunks) |->
                                 GoAudioEvent(j + 2, 1, loaded.chunks[j])]
                          \o <<GoDoneEvent>>]}

\* setupRoutes
GoHandle(endpoint, body, env) ==
    CASE endpoint = "chat"  -> GoHandleChatCompletion(body, env)
      [] endpoint = "rag"   -> GoHandleRAGChatCompletion(body, env)
      [] endpoint = "audio" -> GoHandleAudioChatCompletion(body, env)

----------------------------------------------------------------------------
(* handleChatCompletion of the Go server, step by step: the handler and    *)
(* the goroutine it starts run concurrently and meet at responseChan and   *)
(* errorChan.  A step is what one of the two does up to its next channel   *)
(* operation or call of the upstream client.                               *)

\* the capacity of responseChan, make(chan any, 100) in the source, scaled
\* down so that a stream of MaxChunks chunks fills the channel and the
\* goroutine waits at its send
ResponseChanCap == 2
\* errorChan := make(chan error, 1)
ErrorChanCap == 1

GoInit ==
    /\ InitOf({})
    /\ loader = NoLoader
    /\ go \in { [NoGo EXCEPT !.body = body, !.handler = "start"] :
                  body \in Bodies }

\* ShouldBindJSON, the check of request.Stream, the content type, the two
\* channels and the go statement
GoChatHandler ==
    /\ go.handler = "start"
    /\ IF GoValidation(go.body) # <<>>
       THEN go' = [go EXCEPT !.out = GoValidation(go.body)[1],
                             !.handler = "returned"]
       ELSE go' = [go EXCEPT !.handler = "select", !.producer = "create"]
    /\ UNCHANGED <<handlerVars, loader>>

\* the goroutine converts the messages and CreateChatCompletionStream
\* returns the stream; defer stream.Close()
GoCreateSucceeds ==
    /\ go.producer = "create"
    /\ go' = [go EXCEPT
                !.out.sent = Append(@, GoConvert(GoMessages(go.body))),
                !.stream = "open", !.producer = "recv"]
    /\ UNCHANGED <<handlerVars, loader>>

\* CreateChatCompletionStream returns an error
GoCreateFails ==
    /\ go.producer = "create"
    /\ \E error \in UpstreamErrors :
          go' = [go EXCEPT
                   !.out.sent = Append(@, GoConvert(GoMessages(go.body))),
                   !.stream = "failed", !.err = <<error.message>>,
                   !.producer = "sendError"]
    /\ UNCHANGED <<handlerVars, loader>>

\* stream.Recv() returns a response
GoRecvChunk ==
    /\ go.producer = "recv"
    /\ Len(go.received) < MaxChunks
    /\ \E chunk \in Chunks :
          go' = [go EXCEPT !.received = Append(@, chunk),
                           !.pending = <<chunk>>, !.producer = "sendChunk"]
    /\ UNCHANGED <<handlerVars, loader>>

\* stream.Recv() returns io.EOF: break, close(responseChan)
GoRecvEOF ==
    /\ go.producer = "recv"
    /\ go' = [go EXCEPT !.closed = TRUE, !.producer = "returning"]
    /\ UNCHANGED <<handlerVars, loader>>

\* stream.Recv() returns an error
GoRecvFails ==
    /\ go.producer = "recv"
    /\ \E error \in UpstreamErrors :
          go' = [go EXCEPT !.err = <<error.message>>, !.producer = "sendError"]
    /\ UNCHANGED <<handlerVars, loader>>

\* responseChan <- response: blocks while the channel is full
GoSendChunk ==
    /\ go.producer = "sendChunk"
    /\ Len(go.responseChan) < ResponseChanCap
    /\ go' = [go EXCEPT !.responseChan = Append(@, go.pending[1]),
                        !.pending = <<>>, !.producer = "recv"]
    /\ UNCHANGED <<handlerVars, loader>>

\* errorChan <- err: blocks while the channel is full
GoSendErr ==
    /\ go.producer = "sendError"
    /\ Len(go.errorChan) < ErrorChanCap
    /\ go' = [go EXCEPT !.errorChan = Append(@, go.err[1]),
                        !.producer = "returning"]
    /\ UNCHANGED <<handlerVars, loader>>

\* mutant: the goroutine returns and leaves the stream open
GoProducerReturns_LeavesOpen ==
    /\ go.producer = "returning"
    /\ go' = [go EXCEPT !.producer = "done"]
    /\ UNCHANGED <<handlerVars, loader>>

\* the goroutine returns: the deferred stream.Close() runs if the stream
\* was opened
GoProducerReturns ==
    /\ go.producer = "returning"
    /\ go' = [go EXCEPT !.producer = "done",
                        !.stream = IF @ = "open" THEN "closed" ELSE @]
    /\ UNCHANGED <<handlerVars, loader>>

\* select: case chunk, ok := <-responseChan with ok true
GoSelectChunk ==
    /\ go.handler = "select"
    /\ go.responseChan # <<>>
    /\ go' = [go EXCEPT
                !.out.events =
                    Append(@, GoSSEvent(GoJsonMarshal(Head(go.responseChan)))),
                !.responseChan = Tail(@)]
    /\ UNCHANGED <<handlerVars, loader>>

\* select: case chunk, ok := <-responseChan with ok false, the channel
\* being closed and empty
GoSelectClosed ==
    /\ go.handler = "select"
    /\ go.responseChan = <<>>
    /\ go.closed
    /\ go' = [go EXCEPT !.out.events = Append(@, GoDoneEvent),
                        !.handler = "returned"]
    /\ UNCHANGED <<handlerVars, loader>>

\* select: case err := <-errorChan
GoSelectError ==
    /\ go.handler = "select"
    /\ go.errorChan # <<>>
    /\ go' = [go EXCEPT !.out = GoSendError(@, 500, Head(go.errorChan)),
                        !.errorChan = Tail(@),
                        !.handler = "returned"]
    /\ UNCHANGED <<handlerVars, loader>>

GoNext ==
    \/ GoChatHandler
    \/ GoCreateSucceeds
    \/ GoCreateFails
    \/ GoRecvChunk
    \/ GoRecvEOF
    \/ GoRecvFails
    \/ GoSendChunk
    \/ GoSendErr
    \/ GoProducerReturns
    \/ GoSelectChunk
    \/ GoSelectClosed
    \/ GoSelectError

GoSpec == GoInit /\ [][GoNext]_vars

\* the Go scheduler runs a goroutine that can run, and each call of the
\* upstream client returns
GoLiveSpec == GoSpec /\ WF_vars(GoNext)

----------------------------------------------------------------------------
(* The client *)

\* the client closes the connection while the handler of r is suspended; no
\* handler listens to the 'close' event of req or res
ClientDisconnects(r) ==
    /\ pc[r] \notin {"start", "closed"}
    /\ ~res[r].destroyed
    /\ res' = [res EXCEPT ![r].destroyed = TRUE]
    /\ UNCHANGED <<req, loader, go, pc, upstream, retrieval, audio, caught, trace>>

----------------------------------------------------------------------------
(* readPCMFile(filePath, sampleRate, durationMs) called on its own, for    *)
(* every sample rate and chunk duration: fs.readFile is awaited, then the  *)
(* loop runs turn by turn.                                                 *)

\* the sample rates and chunk durations readPCMFile is called with; for
\* each pair Math.floor(sampleRate * 2 * (durationMs / 1000)) in floating
\* point equals ChunkSizeOf
LoaderSampleRates == {0, 250, 500, SampleRate}
LoaderDurations == {0, 1, 2, 3, DurationMs}

LoaderFiles == { PcmBytes(n) : n \in 0..MaxPcmLen }

LoaderInit ==
    /\ InitOf({})
    /\ loader \in { [NoLoader EXCEPT !.pc = "awaitReadFile",
                                      !.sampleRate = sr, !.durationMs = d] :
                        sr \in LoaderSampleRates, d \in LoaderDurations }
    /\ go = NoGo

\* fs.readFile resolves: chunkSize is computed and the loop entered
ReadFileResolves ==
    /\ loader.pc = "awaitReadFile"
    /\ \E content \in LoaderFiles :
          loader' = [loader EXCEPT
                       !.pc = "loop", !.read = TRUE, !.content = content,
                       !.chunkSize = ChunkSizeOf(loader.sampleRate,
                                                 loader.durationMs),
                       !.i = 0, !.chunks = <<>>]
    /\ UNCHANGED <<handlerVars, go>>

\* fs.readFile rejects: the error is logged and thrown again
ReadFileRejects ==
    /\ loader.pc = "awaitReadFile"
    /\ \E error \in FileErrors :
          loader' = [loader EXCEPT !.pc = "threw", !.error = <<error>>]
    /\ UNCHANGED <<handlerVars, go>>

\* one turn of the loop: i < content.length, push the slice, i += chunkSize
PcmLoopTurn ==
    /\ loader.pc = "loop"
    /\ loader.i < Len(loader.content)
    /\ Len(loader.chunks) < MaxTurns
    /\ loader' = [loader EXCEPT
                     !.chunks = Append(@, Slice(loader.content, loader.i,
                                                loader.i + loader.chunkSize)),
                     !.i = @ + loader.chunkSize]
    /\ UNCHANGED <<handlerVars, go>>

\* the loop condition fails: return chunks
PcmLoopReturns ==
    /\ loader.pc = "loop"
    /\ ~(loader.i < Len(loader.content))
    /\ loader' = [loader EXCEPT !.pc = "returned"]
    /\ UNCHANGED <<handlerVars, go>>

LoaderNext ==
    \/ ReadFileResolves
    \/ ReadFileRejects
    \/ PcmLoopTurn
    \/ PcmLoopReturns

LoaderSpec == LoaderInit /\ [][LoaderNext]_vars

----------------------------------------------------------------------------
(* Two requests handled concurrently: the event loop interleaves the turns *)
(* of their handlers in any order.                                         *)

ConcRequestIds == {1, 2}

ConcBodies ==
    { [messages |-> JArray(<<SystemMsg, UserMsg>>), stream |-> JTrue,
       tools |-> JUndefined, tool_choice |-> JUndefined],
      [messages |-> JArray(<<UserMsg>>), stream |-> JFalse,
       tools |-> JUndefined, tool_choice |-> JUndefined] }

ConcInit ==
    /\ req \in [ConcRequestIds -> [endpoint : {"chat", "rag"},
                                    body : ConcBodies]]
    /\ NewRequests(ConcRequestIds)
    /\ loader = NoLoader
    /\ go = NoGo

ConcNext ==
    \/ \E r \in Requests : ChatHandler(r)
    \/ \E r \in Requests : CreateResolves(r)
    \/ \E r \in Requests : CreateRejects(r)
    \/ \E r \in Requests : StreamChunk(r)
    \/ \E r \in Requests : StreamEnds(r)
    \/ \E r \in Requests : StreamFails(r)
    \/ \E r \in Requests : RagHandler(r)
    \/ \E r \in Requests : RetrievalResolves(r)
    \/ \E r \in Requests : RetrievalRejects(r)

ConcSpec == ConcInit /\ [][ConcNext]_vars

----------------------------------------------------------------------------

Next ==
    \/ \E r \in Requests : ChatHandler(r)
    \/ \E r \in Requests : CreateResolves(r)
    \/ \E r \in Requests : CreateRejects(r)
    \/ \E r \in Requests : StreamChunk(r)
    \/ \E r \in Requests : StreamEnds(r)
    \/ \E r \in Requests : StreamFails(r)
    \/ \E r \in Requests : RagHandler(r)
    \/ \E r \in Requests : RetrievalResolves(r)
    \/ \E r \in Requests : RetrievalRejects(r)
    \/ \E r \in Requests : AudioHandler(r)
    \/ \E r \in Requests : ReadTextResolves(r)
    \/ \E r \in Requests : ReadTextRejects(r)
    \/ \E r \in Requests : ReadPcmResolves(r)
    \/ \E r \in Requests : ReadPcmRejects(r)
    \/ \E r \in Requests : AudioTimer(r)
    \/ \E r \in Requests : SimulatedTimer(r)
    \/ \E r \in Requests : ClientDisconnects(r)

Spec == Init /\ [][Next]_vars

\* every step request r's handler can take
Step(r) ==
    \/ ChatHandler(r) \/ CreateResolves(r) \/ CreateRejects(r)
    \/ StreamChunk(r) \/ StreamEnds(r) \/ StreamFails(r)
    \/ RagHandler(r) \/ RetrievalResolves(r) \/ RetrievalRejects(r)
    \/ AudioHandler(r) \/ ReadTextResolves(r) \/ ReadTextRejects(r)
    \/ ReadPcmResolves(r) \/ ReadPcmRejects(r)
    \/ AudioTimer(r) \/ SimulatedTimer(r)

\* the event loop runs every continuation that is ready, and every awaited
\* promise and timer of the environment settles
LiveSpec == Spec /\ \A r \in RequestIds : WF_vars(Step(r))

----------------------------------------------------------------------------
(* What a client observes of a response *)

Handled(r) == pc[r] # "start"
Closed(r) == pc[r] = "closed"

\* the request passed validation: the handler committed to the SSE transport
Admitted(r) == res[r].headers.ContentType = "text/event-stream"

NoSseHeader(r) ==
    /\ res[r].headers.ContentType # "text/event-stream"
    /\ res[r].headers.CacheControl = "unset"
    /\ res[r].headers.Connection = "unset"

\* HTTP 400 with a JSON body carrying detail, and nothing of an SSE stream
BadRequest(r) ==
    /\ res[r].statusCode = 400
    /\ res[r].body.t = "json"
    /\ DOMAIN res[r].body.v = {"detail"}
    /\ NoSseHeader(r)
    /\ res[r].written = <<>>
    /\ res[r].ended = 1
    /\ Closed(r)

\* the events a client expects for the chunks of a stream, in order
Forwarded(chunks) ==
    [k \in 1..Len(chunks) |-> [data |-> [t |-> "json", v |-> chunks[k]]]]

Sentinel == [data |-> [t |-> "literal", text |-> "[DONE]"]]

InBandError(message) == [data |-> [t |-> "json", v |-> [error |-> message]]]

IsWaitingEvent(e) ==
    /\ e.data.t = "json"
    /\ DOMAIN e.data.v = {"id", "choices"}
    /\ e.data.v.id = "waiting_msg"

EndsWithSentinel(w) == w # <<>> /\ w[Len(w)] = Sentinel

SentinelCount(w) == Cardinality({k \in 1..Len(w) : w[k] = Sentinel})

----------------------------------------------------------------------------
(* C1: on each of the three endpoints a body without messages is answered  *)
(* with HTTP 400 and a JSON detail; no SSE header is set, no SSE event is   *)
(* written and neither the retrieval nor the upstream is called.           *)
C1_MissingMessagesRejected ==
    \A r \in Requests :
        (Handled(r) /\ req[r].body.messages = JUndefined) =>
            /\ BadRequest(r)
            /\ res[r].body.v.detail = <<"Missing messages in request body">>
            /\ retrieval[r].calls = 0
            /\ upstream[r].calls = 0
            /\ trace[r] = <<"json">>

C1_Witness ==
    \E r \in Requests :
        /\ Closed(r)
        /\ req[r].body.messages = JUndefined
        /\ req[r].body.stream = JTrue
        /\ req[r].endpoint = "rag"
        /\ res[r].statusCode = 400

(* C2: on each of the three endpoints a body with messages and stream      *)
(* false is answered with HTTP 400 and a JSON detail, with no SSE header    *)
(* set and no SSE event written.                                           *)
C2_StreamFalseRejected ==
    \A r \in Requests :
        (Handled(r) /\ req[r].body.messages # JUndefined
                    /\ req[r].body.stream = JFalse) =>
            BadRequest(r)

C2_Witness ==
    \E r \in Requests :
        /\ Closed(r)
        /\ req[r].body.messages = JArray(<<UserMsg>>)
        /\ req[r].body.stream = JFalse
        /\ req[r].endpoint = "audio"
        /\ res[r].statusCode = 400
        /\ res[r].body.v.detail = <<"chat completions require streaming">>

(* C3, as claimed: a request is admitted only if its stream is true, and   *)
(* a request whose stream is false or absent is rejected with HTTP 400      *)
(* before any output.                                                      *)
C3_Original ==
    \A r \in Requests :
        /\ Admitted(r) => req[r].body.stream = JTrue
        /\ (Handled(r) /\ req[r].body.stream \in {JFalse, JUndefined}) =>
              BadRequest(r)

(* C3, amended: a request is admitted only if its stream is absent or      *)
(* truthy; a request whose stream is false (or another falsy value) is     *)
(* rejected with HTTP 400 before any output; an absent stream counts as    *)
(* true, so a request with truthy messages and no stream is admitted.      *)
C3_StreamTruthyOrAbsent ==
    \A r \in Requests :
        /\ Admitted(r) =>
              req[r].body.stream.t \notin {"false", "null", "zero", "emptystr"}
        /\ (Handled(r) /\ req[r].body.stream.t
                            \in {"false", "null", "zero", "emptystr"}) =>
              BadRequest(r)
        /\ (Handled(r) /\ req[r].body.stream = JUndefined
                       /\ req[r].body.messages.t \in {"array", "one"}) =>
              Admitted(r) /\ res[r].statusCode # 400

C3_Witness ==
    \E r \in Requests :
        /\ req[r].body.stream = JUndefined
        /\ req[r].endpoint = "chat"
        /\ Admitted(r)
        /\ Closed(r)
        /\ EndsWithSentinel(res[r].written)

(* C4: on /chat/completions, while the upstream stream is open the events *)
(* written are the chunks received, unchanged and in arrival order; when   *)
(* it has ended cleanly after N chunks the response is those N events,     *)
(* then one [DONE], and nothing more.                                      *)
C4_ChunksThenDone ==
    \A r \in Requests :
        (req[r].endpoint = "chat") =>
            /\ upstream[r].state = "open" =>
                  /\ res[r].written = Forwarded(upstream[r].received)
                  /\ res[r].ended = 0
            /\ upstream[r].state = "ended" =>
                  /\ res[r].written =
                        Forwarded(upstream[r].received) \o <<Sentinel>>
                  /\ res[r].ended = 1
                  /\ res[r].statusCode = 200
                  /\ res[r].body.t = "none"
                  /\ Closed(r)

C4_Witness ==
    \E r \in Requests :
        /\ req[r].endpoint = "chat"
        /\ upstream[r].state = "ended"
        /\ upstream[r].received = <<[id |-> "c2"], [id |-> "c1"], [id |-> "c1"]>>
        /\ Len(res[r].written) = 4

(* C5, as claimed: once a request has passed validation on                 *)
(* /chat/completions or /rag/chat/completions, no error changes the HTTP   *)
(* status or sends a JSON error body; every error is an in-band SSE event. *)
C5_Original ==
    \A r \in Requests :
        (req[r].endpoint \in {"chat", "rag"} /\ Admitted(r)) =>
            /\ res[r].statusCode = 200
            /\ res[r].body.t = "none"
            /\ caught[r] # <<>> =>
                  \E k \in 1..Len(res[r].written) :
                      res[r].written[k] = InBandError(caught[r][1].message)

(* C5, amended: an error caught after the first SSE event was written is   *)
(* reported in-band, as an error event and [DONE], with the status and     *)
(* body untouched: that is every error on /rag/chat/completions, and on    *)
(* /chat/completions every error after the first chunk.  On                *)
(* /chat/completions an error before any chunk was written (create fails,  *)
(* or the stream fails before its first chunk) is answered with HTTP 500   *)
(* and a JSON detail, and no SSE event.                                    *)
C5_InBandOnceWritten ==
    \A r \in Requests :
        (req[r].endpoint \in {"chat", "rag"} /\ Admitted(r)
            /\ caught[r] # <<>>) =>
            LET w == res[r].written
                early == req[r].endpoint = "chat" /\ upstream[r].received = <<>>
            IN  /\ early =>
                      /\ res[r].statusCode = 500
                      /\ res[r].body.t = "json"
                      /\ DOMAIN res[r].body.v = {"detail"}
                      /\ w = <<>>
                /\ ~early =>
                      /\ res[r].statusCode = 200
                      /\ res[r].body.t = "none"
                      /\ Len(w) >= 3
                      /\ w[Len(w) - 1] = InBandError(caught[r][1].message)
                      /\ w[Len(w)] = Sentinel
                /\ res[r].ended = 1
                /\ Closed(r)

C5_Witness ==
    \E r \in Requests :
        /\ req[r].endpoint = "rag"
        /\ upstream[r].state = "openFailed"
        /\ caught[r] # <<>>
        /\ res[r].statusCode = 200
        /\ Len(res[r].written) = 3

(* C6: on /chat/completions, when the upstream stream fails after k >= 1   *)
(* chunks were forwarded, the response is those k chunk events in order,   *)
(* then one event {error: message}, then one [DONE], and it is ended.      *)
C6_ErrorAfterChunks ==
    \A r \in Requests :
        (req[r].endpoint = "chat" /\ upstream[r].state = "failed"
            /\ Len(upstream[r].received) >= 1) =>
            /\ caught[r] # <<>>
            /\ res[r].written =
                  Forwarded(upstream[r].received)
                  \o <<InBandError(caught[r][1].message), Sentinel>>
            /\ res[r].ended = 1
            /\ res[r].statusCode = 200
            /\ res[r].body.t = "none"
            /\ Closed(r)

C6_Witness ==
    \E r \in Requests :
        /\ req[r].endpoint = "chat"
        /\ upstream[r].state = "failed"
        /\ Len(upstream[r].received) = 2
        /\ Len(res[r].written) = 4
        /\ res[r].written[3] = InBandError("Connection error.")

(* C7: on the three endpoints, in every state, at most one [DONE] has been *)
(* written, [DONE] is the last event written, the response is ended at     *)
(* most once, and nothing is written or ended after the end.               *)
C7_OneSentinelOneEnd ==
    \A r \in Requests :
        LET w == res[r].written
            ops == trace[r]
        IN  /\ SentinelCount(w) <= 1
            /\ \A k \in 1..Len(w) : w[k] = Sentinel => k = Len(w)
            /\ res[r].ended <= 1
            /\ \A k \in 1..Len(ops) :
                  ops[k] \in {"end", "json"} => k = Len(ops)
            /\ res[r].ended = 1 <=> Closed(r)

C7_Witness ==
    \E r \in Requests :
        /\ req[r].endpoint = "audio"
        /\ Closed(r)
        /\ Admitted(r)
        /\ audio[r].text = ""
        /\ SentinelCount(res[r].written) = 1
        /\ Len(res[r].written) = 7

(* C8, as claimed: every response of a request that passed validation is  *)
(* closed after a terminal [DONE].                                         *)
C8_Original ==
    \A r \in Requests :
        (Admitted(r) /\ Closed(r)) => EndsWithSentinel(res[r].written)

\* the response of r is closed without [DONE]: HTTP 500 and a JSON body,
\* /chat/completions having failed before any chunk was written
ClosedEarly(r) ==
    /\ req[r].endpoint = "chat"
    /\ upstream[r].state \in {"openFailed", "failed"}
    /\ upstream[r].received = <<>>
    /\ res[r].statusCode = 500
    /\ res[r].body.t = "json"
    /\ res[r].written = <<>>

(* C8, amended: every request that passed validation eventually has its    *)
(* response ended, each awaited call settling; it is ended right after a   *)
(* terminal [DONE], on the three endpoints, but for /chat/completions      *)
(* when create or the stream fails before any chunk was written: then it   *)
(* is ended as HTTP 500 with a JSON body, without [DONE].                  *)
C8_EventuallyEnded ==
    \A r \in RequestIds :
        Admitted(r) ~>
            /\ Closed(r)
            /\ res[r].ended = 1
            /\ EndsWithSentinel(res[r].written) \/ ClosedEarly(r)

C8_Witness ==
    \E r \in Requests :
        /\ req[r].endpoint = "rag"
        /\ upstream[r].state = "failed"
        /\ upstream[r].received = <<>>
        /\ Closed(r)
        /\ res[r].ended = 1
        /\ EndsWithSentinel(res[r].written)

(* C9: on /rag/chat/completions, for every request that passed validation *)
(* the waiting message is the first event of the response and is written   *)
(* once; it is written before performRagRetrieval and before create are    *)
(* called.                                                                 *)
C9_WaitingMessageFirst ==
    \A r \in Requests :
        (req[r].endpoint = "rag" /\ Admitted(r)) =>
            LET w == res[r].written
                ops == trace[r]
            IN  /\ Len(w) >= 1
                /\ w[1] \in WaitingEvents
                /\ \A k \in 2..Len(w) : ~IsWaitingEvent(w[k])
                /\ ops[1] = "write"
                /\ \A k \in 1..Len(ops) :
                      ops[k] \in {"retrieve", "create"} => k > 1
                /\ retrieval[r].calls = 1

C9_Witness ==
    \E r \in Requests :
        /\ req[r].endpoint = "rag"
        /\ Closed(r)
        /\ upstream[r].state = "ended"
        /\ Len(upstream[r].received) = 2
        /\ Len(res[r].written) = 4
        /\ trace[r][2] = "retrieve"
        /\ trace[r][3] = "create"

C11_ContextPrepended ==
    \A r \in Requests :
        (req[r].endpoint = "rag" /\ upstream[r].calls > 0) =>
            LET M == req[r].body.messages.a
                sent == upstream[r].sent
                out == sent[1].messages.a
            IN  /\ Len(sent) = 1
                /\ req[r].body.messages.t = "array"
                /\ sent[1].messages.t = "array"
                /\ Len(out) = Len(M) + 1
                /\ out[1].role = "system"
                /\ out[1].content.t = "string"
                /\ \E k \in 1..Len(out[1].content.a) :
                      out[1].content.a[k] = RetrievedContext
                /\ \A i \in 1..Len(M) : out[i + 1] = M[i]
                /\ Cardinality({i \in 1..Len(out) : out[i].role = "system"})
                      = 1 + Cardinality({i \in 1..Len(M) : M[i].role = "system"})

C11_Witness ==
    \E r \in Requests :
        /\ req[r].endpoint = "rag"
        /\ req[r].body.messages = JArray(<<SystemMsg, UserMsg>>)
        /\ upstream[r].calls = 1
        /\ Len(upstream[r].sent[1].messages.a) = 3
        /\ upstream[r].sent[1].messages.a[2] = SystemMsg
        /\ upstream[r].sent[1].messages.a[3] = UserMsg

\* Buffer.from(chars, 'base64'): the bytes a client decodes from a payload
Base64Decode(chars) ==
    LET groups == Len(chars) \div 4
        pads == Cardinality({k \in 1..Len(chars) : chars[k] = 64})
        Sextet(k) == IF chars[k] = 64 THEN 0 ELSE chars[k]
        Byte(k) ==
            LET g == (k - 1) \div 3
                c0 == Sextet(4 * g + 1)
                c1 == Sextet(4 * g + 2)
                c2 == Sextet(4 * g + 3)
                c3 == Sextet(4 * g + 4)
                p  == (k - 1) % 3
            IN  CASE p = 0 -> c0 * 4 + c1 \div 16
                  [] p = 1 -> (c1 % 16) * 16 + c2 \div 4
                  [] p = 2 -> (c2 % 4) * 64 + c3
    IN  [k \in 1..(3 * groups - pads) |-> Byte(k)]

\* the bytes a client decodes from the audio event e
AudioBytes(e) == Base64Decode(e.data.v.choices[1].delta.audio.data)

IsAudioEvent(e) ==
    /\ e.data.t = "json"
    /\ DOMAIN e.data.v = {"id", "choices"}
    /\ "data" \in DOMAIN e.data.v.choices[1].delta.audio

RECURSIVE Flatten(_)
Flatten(seqs) ==
    IF seqs = <<>> THEN <<>> ELSE Head(seqs) \o Flatten(Tail(seqs))

(* C12: on /audio/chat/completions, with the transcript and the PCM asset  *)
(* both read, for an asset of S >= 0 bytes and the chunk size C > 0 the    *)
(* audio events written are at most ceil(S / C), the payload of the j-th   *)
(* (counted from 0) base64-decodes to the bytes [j*C, min((j+1)*C, S)) of   *)
(* the asset, and once the response is ended there are exactly ceil(S / C) *)
(* of them and their decoded payloads, concatenated, are the asset.        *)
C12_ChunksCoverAsset ==
    \A r \in Requests :
        (req[r].endpoint = "audio" /\ audio[r].pcm # <<>>) =>
            LET content == audio[r].pcm[1]
                S == Len(content)
                C == ChunkSizeOf(SampleRate, DurationMs)
                w == res[r].written
                events == SelectSeq(w, IsAudioEvent)
                decoded == [j \in 1..Len(events) |-> AudioBytes(events[j])]
            IN  /\ C > 0
                /\ Len(events) <= (S + C - 1) \div C
                /\ \A j \in 1..Len(events) :
                      decoded[j] = SubSeq(content, (j - 1) * C + 1, Min(j * C, S))
                /\ Closed(r) =>
                      /\ Len(events) = (S + C - 1) \div C
                      /\ Flatten(decoded) = content
                      /\ Len(w) = Len(events) + 2
                      /\ \A k \in 2..(Len(w) - 1) : IsAudioEvent(w[k])

C12_Witness ==
    \E r \in Requests :
        /\ req[r].endpoint = "audio"
        /\ Closed(r)
        /\ audio[r].pcm # <<>>
        /\ Len(audio[r].pcm[1]) = ChunkSizeOf(SampleRate, DurationMs) + 1
        /\ Len(res[r].written) = 4
        /\ Len(AudioBytes(res[r].written[2])) = 1280
        /\ AudioBytes(res[r].written[3]) = <<(1281 * 7) % 256>>

IsTranscriptEvent(e, transcript) ==
    /\ e.data.t = "json"
    /\ DOMAIN e.data.v = {"id", "choices"}
    /\ DOMAIN e.data.v.choices[1].delta.audio = {"id", "transcript"}
    /\ e.data.v.choices[1].delta.audio.transcript = transcript

IsErrorEvent(e) == e.data.t = "json" /\ "error" \in DOMAIN e.data.v

(* C13: on /audio/chat/completions, when reading the transcript or the PCM *)
(* asset fails, the response is one event carrying the fixed simulated     *)
(* transcript, then five audio events of filler bytes, then [DONE], and is *)
(* ended; the failure is not surfaced: the status stays 200, no JSON body   *)
(* is sent, no error event is written and the outer catch is not entered.  *)
C13_SimulatedFallback ==
    \A r \in Requests :
        (req[r].endpoint = "audio" /\ audio[r].failure # <<>>) =>
            LET w == res[r].written
                events == SelectSeq(w, IsAudioEvent)
            IN  /\ Len(w) >= 2
                /\ IsTranscriptEvent(w[1],
                      "This is a simulated audio response because actual audio files weren't found.")
                /\ Len(events) <= 5
                /\ \A j \in 1..Len(events) :
                      /\ w[j + 1] = events[j]
                      /\ Len(AudioBytes(events[j])) = FillerLength
                /\ \A k \in 1..Len(w) : ~IsErrorEvent(w[k])
                /\ res[r].statusCode = 200
                /\ res[r].body.t = "none"
                /\ caught[r] = <<>>
                /\ audio[r].pcm = <<>>
                /\ Closed(r) =>
                      /\ Len(events) = 5
                      /\ Len(w) = 7
                      /\ w[7] = Sentinel
                      /\ res[r].ended = 1

C13_Witness ==
    \E r \in Requests :
        /\ req[r].endpoint = "audio"
        /\ audio[r].failure # <<>>
        /\ audio[r].text # ""
        /\ Closed(r)
        /\ Len(res[r].written) = 7
        /\ AudioBytes(res[r].written[6]) = [k \in 1..40 |-> (k * 37) % 256]

(* C14, as claimed: whenever the chunk size sampleRate * 2 * durationMs /   *)
(* 1000 computes to zero, loading the audio chunks fails with a validation *)
(* error, for every file content: the loop is not entered and no chunk     *)
(* list is returned.                                                       *)
C14_ZeroChunkSizeFails ==
    (loader.read /\ ChunkSizeOf(loader.sampleRate, loader.durationMs) = 0) =>
        /\ loader.pc = "threw"
        /\ loader.error # <<>>
        /\ loader.chunks = <<>>

(* C15, as claimed: tools and tool_choice are passed upstream only when    *)
(* the tools of the request are a non-empty list; for a request whose      *)
(* tools are absent or an empty list the upstream request carries neither  *)
(* tools nor tool_choice.                                                  *)
C15_ToolsOnlyWhenNonEmpty ==
    \A r \in Requests :
        \A k \in 1..Len(upstream[r].sent) :
            LET tools == req[r].body.tools
                sent == upstream[r].sent[k]
                nonEmpty == tools.t = "array" /\ Len(tools.a) > 0
            IN  /\ (sent.tools # JUndefined \/ sent.tool_choice # JUndefined)
                      => nonEmpty
                /\ (tools = JUndefined \/ tools = JArray(<<>>)) =>
                      /\ sent.tools = JUndefined
                      /\ sent.tool_choice = JUndefined

\* no subscription to the upstream stream of r is open
Released(r) == upstream[r].state \in {"none", "openFailed", "ended", "failed"}

(* C16, as claimed: once the client of a /chat/completions or              *)
(* /rag/chat/completions request has disconnected while the response is    *)
(* streaming, the handler asks the upstream stream for no further chunk,   *)
(* and the upstream stream of a request whose response has ended is        *)
(* released.                                                               *)
C16_StopsPullingOnDisconnect ==
    [][\A r \in Requests :
          /\ (req[r].endpoint \in {"chat", "rag"} /\ res[r].destroyed
                 /\ upstream[r].state = "open") =>
                upstream'[r].pulls = upstream[r].pulls
          /\ pc'[r] = "closed" => Released(r)']_vars

\* everything the model holds of request r
StateOf(r) ==
    <<req[r], pc[r], res[r], upstream[r], retrieval[r], audio[r], caught[r],
      trace[r]>>

\* the events the response of r holds when r is handled alone, given its own
\* request and what its own retrieval and its own upstream stream did
AloneWritten(r) ==
    LET waiting == IF req[r].endpoint = "rag" /\ Admitted(r)
                   THEN <<res[r].written[1]>> ELSE <<>>
        chunks == Forwarded(upstream[r].received)
        failed == \/ upstream[r].state \in {"openFailed", "failed"}
                  \/ retrieval[r].state = "rejected"
        last == IF upstream[r].state = "ended" THEN <<Sentinel>>
                ELSE IF failed /\ waiting \o chunks # <<>>
                THEN <<InBandError(caught[r][1].message), Sentinel>>
                ELSE <<>>
    IN  waiting \o chunks \o last

(* C17: with two requests handled concurrently, under every interleaving   *)
(* of the turns of their handlers, each response holds the events of its   *)
(* own request and its own upstream stream only, in that stream's order,   *)
(* as it does when the request is handled alone, and a turn of one handler *)
(* leaves everything of the other request as it is.                        *)
C17_RequestsIndependent ==
    /\ [](\A r \in Requests :
            /\ res[r].written = AloneWritten(r)
            /\ (req[r].endpoint = "rag" /\ Admitted(r)) =>
                  res[r].written[1] \in WaitingEvents
            /\ Len(upstream[r].sent) <= 1
            /\ upstream[r].sent # <<>> =>
                  upstream[r].sent[1].messages.a
                    \in { req[r].body.messages.a,
                          refactMessages(RetrievedContext, req[r].body.messages) })
    /\ [][\E r \in Requests :
             \A q \in Requests \ {r} : StateOf(q)' = StateOf(q)]_vars

C17_Witness ==
    /\ Cardinality(Requests) = 2
    /\ \A r \in Requests : Closed(r) /\ Len(upstream[r].received) = 2
    /\ \E r, q \in Requests :
          /\ req[r].endpoint = "chat"
          /\ req[q].endpoint = "rag"
          /\ upstream[r].received # upstream[q].received
          /\ upstream[r].state = "ended"
          /\ upstream[q].state = "failed"
          /\ trace[q][Len(trace[q])] = "end"

\* the calls of openai.chat.completions.create in the trace of r
CreateCalls(r) ==
    Cardinality({k \in 1..Len(trace[r]) : trace[r][k] = "create"})

(* C18: a request leads to at most one upstream completion call, and none  *)
(* is retried after a failure; a request rejected by validation and every  *)
(* request of the audio endpoint make no upstream call.                    *)
C18_AtMostOneUpstreamCall ==
    \A r \in Requests :
        /\ upstream[r].calls <= 1
        /\ CreateCalls(r) = upstream[r].calls
        /\ Len(upstream[r].sent) = upstream[r].calls
        /\ upstream[r].state \in {"openFailed", "failed"} =>
              upstream[r].calls = 1 /\ Closed(r)
        /\ res[r].statusCode = 400 =>
              upstream[r].calls = 0 /\ upstream[r].state = "none"
        /\ req[r].endpoint = "audio" =>
              upstream[r].calls = 0 /\ upstream[r].state = "none"
        /\ upstream[r].calls = 1 =>
              req[r].endpoint \in {"chat", "rag"} /\ Admitted(r)

C18_Witness ==
    \E r \in Requests :
        /\ req[r].endpoint = "rag"
        /\ upstream[r].state = "openFailed"
        /\ upstream[r].calls = 1
        /\ CreateCalls(r) = 1
        /\ Closed(r)

\* how many of the calls ops[from..to] are the call op
CountOf(ops, op, from, to) ==
    Cardinality({k \in from..to : ops[k] = op})

(* C20: within one /chat/completions or /rag/chat/completions request the  *)
(* chunks are handled one at a time: chunk i is written to the client       *)
(* before chunk i + 1 is asked of the upstream stream, so each request for *)
(* a chunk comes after the writes of all the chunks received before it,    *)
(* at most one request is outstanding, and no received chunk is left       *)
(* unwritten when the handler suspends.                                    *)
C20_WriteBeforeNextPull ==
    \A r \in Requests :
        (req[r].endpoint \in {"chat", "rag"} /\ upstream[r].calls > 0) =>
            LET ops == trace[r]
                p == CHOOSE k \in 1..Len(ops) : ops[k] = "create"
                got == Len(upstream[r].received)
            IN  /\ \A k \in (p + 1)..Len(ops) :
                      ops[k] = "next" =>
                          CountOf(ops, "write", p + 1, k - 1)
                            = CountOf(ops, "next", p + 1, k - 1)
                /\ CountOf(ops, "next", 1, Len(ops)) = upstream[r].pulls
                /\ upstream[r].pulls <= got + 1
                /\ upstream[r].state = "open" =>
                      /\ upstream[r].pulls = got + 1
                      /\ CountOf(ops, "write", p + 1, Len(ops)) = got
                /\ SelectSeq(res[r].written,
                             LAMBDA e : e \in {ChunkEvent(c) : c \in Chunks})
                      = Forwarded(upstream[r].received)

C20_Witness ==
    \E r \in Requests :
        /\ req[r].endpoint = "rag"
        /\ upstream[r].state = "open"
        /\ Len(upstream[r].received) = 2
        /\ trace[r] = <<"write", "retrieve", "create", "next", "write", "next",
                        "write", "next">>

\* what the upstream client, the retrieval and the file system did for
\* request r, as the Node handler met it
EnvOf(r) ==
    [waiting   |-> IF req[r].endpoint = "rag" /\ res[r].written # <<>>
                   THEN CHOOSE i \in 1..Len(waitingMessages) :
                            res[r].written[1] = ChunkEvent(WaitingMessage(i))
                   ELSE 1,
     retrieval |-> retrieval[r].state,
     upstream  |-> upstream[r].state,
     received  |-> upstream[r].received,
     error     |-> IF caught[r] # <<>> THEN caught[r][1].message
                   ELSE IF audio[r].failure # <<>>
                   THEN audio[r].failure[1].message ELSE "",
     text      |-> IF audio[r].text = "" THEN <<>> ELSE <<audio[r].text>>,
     pcm       |-> audio[r].pcm]

SameMessage(a, b) ==
    /\ a.role = b.role
    /\ a.content.t = b.content.t
    /\ a.content.t = "string" => a.content.a = b.content.a

\* the Go outcome o and the response of the Node handler to r are the same
\* for a client: status, event payloads in order, a JSON body or none, and
\* the message lists sent upstream
SameOutcome(o, r) ==
    /\ o.status = res[r].statusCode
    /\ o.body.t = res[r].body.t
    /\ Len(o.events) = Len(res[r].written)
    /\ \A k \in 1..Len(o.events) : o.events[k].data = res[r].written[k].data
    /\ Len(o.sent) = Len(upstream[r].sent)
    /\ \A k \in 1..Len(o.sent) :
          LET mine == o.sent[k]
              theirs == upstream[r].sent[k].messages.a
          IN  /\ upstream[r].sent[k].messages.t = "array"
              /\ Len(mine) = Len(theirs)
              /\ \A i \in 1..Len(mine) : SameMessage(mine[i], theirs[i])

\* the upstream stream, the retrieval and the files of r have done all they
\* do for the request
Settled(r) ==
    /\ Closed(r)
    /\ res[r].statusCode # 400 => Admitted(r)

PlainBody(body) ==
    /\ body.messages.t = "array"
    /\ \A k \in 1..Len(body.messages.a) :
          body.messages.a[k].content.t = "string"
    /\ body.stream.t \in {"true", "false"}

HasTranscript(e) ==
    /\ e.data.t = "json"
    /\ DOMAIN e.data.v = {"id", "choices"}
    /\ "transcript" \in DOMAIN e.data.v.choices[1].delta.audio

\* the audio correlation identifier of a transcript or audio event
AudioIdOf(e) == e.data.v.choices[1].delta.audio.id

(* C21: every /audio/chat/completions response that passed validation has *)
(* the shape transcript event, audio events, [DONE]: the first event       *)
(* written is the one transcript event, every event after it is an audio   *)
(* event but [DONE], which is the last one of an ended response, and the   *)
(* transcript event and all audio events carry the same audio id.          *)
C21_AudioShape ==
    \A r \in Requests :
        (req[r].endpoint = "audio" /\ Admitted(r)) =>
            LET w == res[r].written
            IN  /\ w # <<>> =>
                      /\ HasTranscript(w[1])
                      /\ \A k \in 2..Len(w) :
                            \/ /\ IsAudioEvent(w[k])
                               /\ AudioIdOf(w[k]) = AudioIdOf(w[1])
                            \/ w[k] = Sentinel /\ k = Len(w)
                /\ Closed(r) =>
                      /\ Len(w) >= 2
                      /\ w[Len(w)] = Sentinel
                      /\ res[r].statusCode = 200
                      /\ res[r].body.t = "none"
                /\ (~Closed(r) /\ w # <<>>) => w[Len(w)] # Sentinel

C21_Witness ==
    \E r \in Requests :
        /\ req[r].endpoint = "audio"
        /\ audio[r].pcm # <<>>
        /\ Closed(r)
        /\ Len(res[r].written) = 4
        /\ HasTranscript(res[r].written[1])
        /\ AudioIdOf(res[r].written[3]) = AudioIdOf(res[r].written[1])
        /\ res[r].written[4] = Sentinel

(* C22, as claimed: in the Go server, once /chat/completions or            *)
(* /rag/chat/completions has set the SSE content type, every way the       *)
(* handler returns, a failed open of the upstream stream and a failed      *)
(* receive included, has [DONE] as the last event written.                 *)
C22_GoDoneOnEveryReturn ==
    \A r \in Requests :
        (Settled(r) /\ req[r].endpoint \in {"chat", "rag"}
            /\ res[r].statusCode # 400
            /\ GoValidation(req[r].body) = <<>>) =>
            \A o \in GoHandle(req[r].endpoint, req[r].body, EnvOf(r)) :
                /\ o.events # <<>>
                /\ o.events[Len(o.events)] = GoDoneEvent

(* C23: no response of the Node server mixes the two error channels: a     *)
(* JSON detail body, with HTTP 400 or 500, is sent only on a response on   *)
(* which no SSE event was written, and on a response with an SSE event an  *)
(* error caught later is reported as an error event only, the status       *)
(* staying 200 and no JSON body being sent.                                *)
C23_ErrorChannelsNotMixed ==
    \A r \in Requests :
        LET w == res[r].written
        IN  /\ res[r].body.t = "json" =>
                  /\ w = <<>>
                  /\ res[r].statusCode \in {400, 500}
                  /\ DOMAIN res[r].body.v = {"detail"}
            /\ res[r].statusCode # 200 => res[r].body.t = "json"
            /\ w # <<>> =>
                  /\ res[r].body.t = "none"
                  /\ res[r].statusCode = 200
            /\ (caught[r] # <<>> /\ w # <<>>) =>
                  /\ Len(w) >= 3
                  /\ w[Len(w) - 1] = InBandError(caught[r][1].message)
                  /\ Cardinality({k \in 1..Len(w) : IsErrorEvent(w[k])}) = 1
            /\ caught[r] = <<>> => \A k \in 1..Len(w) : ~IsErrorEvent(w[k])

C23_Witness ==
    \E r \in Requests :
        /\ req[r].endpoint = "chat"
        /\ upstream[r].state = "failed"
        /\ Len(upstream[r].received) = 1
        /\ caught[r] # <<>>
        /\ Len(res[r].written) = 3
        /\ IsErrorEvent(res[r].written[2])
        /\ res[r].body.t = "none"

(* C24, as claimed: the chunking loop of readPCMFile terminates for every  *)
(* file content, sampleRate and durationMs, a chunk size of zero included: *)
(* every turn of the loop moves i forward, towards content.length, so that *)
(* after at most content.length turns the chunk list is returned.          *)
C24_LoopAdvances ==
    [][(loader.pc = "loop" /\ loader'.chunks # loader.chunks) =>
          /\ loader'.i > loader.i
          /\ Len(loader'.chunks) <= Len(loader.content)]_vars

\* what the goroutine of the Go request observed of the upstream stream
GoEnv ==
    [upstream |-> IF go.stream = "failed" THEN "openFailed"
                  ELSE IF go.err # <<>> THEN "failed" ELSE "ended",
     received |-> go.received,
     error    |-> IF go.err # <<>> THEN go.err[1] ELSE ""]

\* the response of the handler taken step by step is one of the outcomes of
\* GoHandleChatCompletion
GoStepsAgreeWithOutcomes ==
    go.handler = "returned" =>
        go.out \in GoHandleChatCompletion(go.body, GoEnv)

(* C25, as claimed: in handleChatCompletion of the Go server, under every  *)
(* interleaving of the goroutine and the handler's select loop, when the   *)
(* handler reports an upstream error it has written before it, in order,   *)
(* every chunk that the goroutine received from the stream before the      *)
(* error: no received chunk is dropped.                                    *)
C25_ChunksBeforeError ==
    (go.handler = "returned" /\ go.err # <<>>) =>
        /\ go.out.body = [t |-> "json", v |-> [detail |-> go.err]]
        /\ go.out.events = GoChunkEvents(go.received)
        /\ go.responseChan = <<>>

(* C26: in handleChatCompletion of the Go server the goroutine does not    *)
(* outlive its request: when the handler has returned the goroutine has    *)
(* returned or has only its return left, with no channel operation before  *)
(* it; a send to responseChan finds room or a handler still receiving, a   *)
(* send to errorChan finds room; a goroutine that has returned has closed  *)
(* the stream if it was opened; and a goroutine that was started returns.  *)
C26_ProducerDoesNotOutlive ==
    /\ [](go.handler = "returned" =>
              go.producer \in {"idle", "returning", "done"})
    /\ [](go.producer = "sendChunk" =>
              (Len(go.responseChan) < ResponseChanCap
                  \/ go.handler = "select"))
    /\ [](go.producer = "sendError" => Len(go.errorChan) < ErrorChanCap)
    /\ [](go.producer = "done" => go.stream \in {"closed", "failed"})
    /\ [](go.stream = "closed" => go.producer = "done")
    /\ (go.producer = "create") ~> (go.producer = "done")

C26_Witness ==
    /\ go.handler = "returned"
    /\ go.producer = "done"
    /\ go.stream = "closed"
    /\ go.err # <<>>
    /\ Len(go.received) >= 2
    /\ go.responseChan # <<>>

====
